---- MODULE Spec2Model ----
(***************************************************************************)
(* Model of the diff-extraction and prompt-assembly pipeline of            *)
(* git-to-json: DiffExtractor, the repository fetch strategies and public  *)
(* calls of src/core.py, build_prompt of src/services/prompt_builder.py,   *)
(* _build_prompt_from_data of src/engine.py, count_tokens and              *)
(* save_data_to_file of src/utils.py, and OpenAICompatibleProvider of      *)
(* src/providers.py.                                                       *)
(*                                                                         *)
(* Text is modelled as a sequence of atoms (each atom a TLA+ string); the  *)
(* empty Python string is the empty sequence, concatenation is \o.         *)
(* Python's None is the atom Null.  An exception is named by its class.    *)
(***************************************************************************)
EXTENDS Integers, Sequences, FiniteSets, TLC

(* ---------------------------------------------------------------------- *)
(* Bounds of the model                                                     *)
(* ---------------------------------------------------------------------- *)
MaxFiles == 2        \* longest change set handed to _process_diff_index
MaxHashes == 3       \* longest hash list of a hashes-mode fetch
ExtraWalk == 2       \* how far a repository walk may run past the safety cap
MaxCommits == 3      \* longest commit list handed to build_prompt
MaxBudget == 30      \* largest max_tokens handed to build_prompt

VARIABLES
    diff_index,      \* the change set a DiffExtractor call works on
    diff_call,       \* the DiffExtractor call made: fn, diff_source, diff_type
    diff_ret,        \* what that call produced
    filters,         \* the query of a fetch: mode, hashes, limit
    repo,            \* the repository a fetch reads
    pc,              \* control position of the running fetch strategy
    kwargs,          \* _fetch_history_data: arguments built for iter_commits
    cursor,          \* number of hashes / walk commits the loop has taken
    commits_data,    \* the list the running strategy is filling
    warned,          \* _fetch_history_data logged the cap warning
    fetch_ret,       \* what the strategy produced
    template,        \* build_prompt: the prompts of the template
    data,            \* build_prompt: the commit list
    max_tokens,      \* build_prompt: the token budget
    prompt_ret,      \* what build_prompt produced
    call,            \* the public call under way: fn and the kind of repo_path
    handle,          \* git.Repo objects opened and close() calls made
    invoked,         \* the fetch strategies the call has invoked
    outcome,         \* what the public call gave its caller
    asked,           \* records the consumer has taken in its current pass
    passes,          \* passes the consumer has started over the result
    save_data,       \* save_data_to_file: the data argument
    fault,           \* save_data_to_file: the failure the environment holds ready
    destination,     \* the file at output_path
    previous,        \* the file at output_path when save_data_to_file was called
    save_pc,         \* control position of save_data_to_file
    pulled,          \* items taken from data so far
    data_as_dicts,   \* the list line 88 builds
    written,         \* records written to the file so far
    save_ret,        \* what save_data_to_file produced
    tokenizer,       \* which tiktoken encodings can be loaded
    token_ret,       \* what a direct count_tokens call produced
    engine_ret,      \* what engine._build_prompt_from_data produced
    client,          \* OpenAICompatibleProvider._client
    trace            \* the provider calls made and the chunks yielded, in order

diffVars == <<diff_index, diff_call, diff_ret>>
fetchVars == <<filters, repo, pc, kwargs, cursor, commits_data, warned, fetch_ret>>
promptVars == <<template, data, max_tokens, prompt_ret>>
callVars == <<call, handle, invoked, outcome, asked, passes>>
saveVars == <<save_data, fault, destination, previous, save_pc, pulled, data_as_dicts, written, save_ret>>
auxVars == <<tokenizer, token_ret, engine_ret, client, trace>>
vars == <<diffVars, fetchVars, promptVars, callVars, saveVars, auxVars>>

(* ---------------------------------------------------------------------- *)
(* Text helpers                                                            *)
(* ---------------------------------------------------------------------- *)
Null == "<None>"

\* str(x) inside an f-string: None is printed as the word None
Fmt(x) == IF x = Null THEN "None" ELSE x

\* Python truthiness of an optional string
Truthy(x) == x # Null /\ x # ""

RECURSIVE Join(_, _)
\* sep.join(parts) for a list of texts
Join(sep, parts) ==
    IF parts = <<>> THEN <<>>
    ELSE IF Len(parts) = 1 THEN parts[1]
    ELSE parts[1] \o sep \o Join(sep, Tail(parts))

RECURSIVE SeqsUpTo(_, _)
\* all sequences over S of length at most n
SeqsUpTo(S, n) ==
    IF n = 0 THEN {<<>>}
    ELSE LET shorter == SeqsUpTo(S, n - 1)
         IN  shorter \cup {Append(s, x) : s \in {t \in shorter : Len(t) = n - 1}, x \in S}

(* ---------------------------------------------------------------------- *)
(* Change records (GitPython Diff objects as _process_diff_index reads     *)
(* them).  fault names the attribute whose read raises, content says what  *)
(* the blob / patch holds.                                                 *)
(* ---------------------------------------------------------------------- *)
DecodeErrors == {"UnicodeDecodeError", "AttributeError", "ValueError"}

PathsOf(new_file, deleted_file) ==
    IF new_file /\ ~deleted_file THEN [a |-> Null, b |-> "new.py"]
    ELSE IF deleted_file /\ ~new_file THEN [a |-> "old.py", b |-> Null]
    ELSE [a |-> "old.py", b |-> "new.py"]

ContentFaults ==
    { <<"text", "none">>, <<"absent", "none">>, <<"empty", "none">>,
      <<"text", "content">>, <<"text", "new_file">>,
      <<"text", "a_path">>, <<"text", "b_path">> }

ChangeRecords ==
    { [new_file |-> n, deleted_file |-> d,
       a_path |-> PathsOf(n, d).a, b_path |-> PathsOf(n, d).b,
       content |-> cf[1], fault |-> cf[2]] :
         n \in BOOLEAN, d \in BOOLEAN, cf \in ContentFaults }

ChangeSets == SeqsUpTo(ChangeRecords, MaxFiles)

\* reading attribute attr of a change record: a value or an exception
ReadAttr(item, attr) ==
    IF item.fault = attr THEN [kind |-> "raise", exc |-> "AttributeError"]
    ELSE [kind |-> "ok", val |-> item[attr]]

ContentText(item) ==
    IF item.content = "text" THEN <<"+line\n">> ELSE <<>>

(* ---------------------------------------------------------------------- *)
(* DiffExtractor._process_diff_index                                       *)
(* ---------------------------------------------------------------------- *)
\* _stream_blob_content(blob, empty_message)
StreamBlobContent(item, empty_message) ==
    IF item.content = "absent" THEN <<empty_message>>
    ELSE IF item.fault = "content" THEN <<"(Could not decode blob content)">>
    ELSE ContentText(item)

RenderTry_DeletedFirst(item) ==
    LET nf == ReadAttr(item, "new_file") IN
    IF nf.kind = "raise" THEN nf
    ELSE IF item.deleted_file THEN
        LET p == ReadAttr(item, "a_path") IN
        IF p.kind = "raise" THEN p
        ELSE [kind |-> "ok",
              val |-> <<"--- DELETED FILE: ", Fmt(p.val), " ---\n">>
                      \o StreamBlobContent(item, "(File was binary or empty)")]
    ELSE IF nf.val THEN
        LET p == ReadAttr(item, "b_path") IN
        IF p.kind = "raise" THEN p
        ELSE [kind |-> "ok",
              val |-> <<"--- NEW FILE: ", Fmt(p.val), " ---\n">>
                      \o StreamBlobContent(item, "(File is binary or empty)")]
    ELSE
        LET p == ReadAttr(item, "a_path") IN
        IF p.kind = "raise" THEN p
        ELSE IF item.content = "absent"
             THEN [kind |-> "raise", exc |-> "AttributeError"]
        ELSE IF item.fault = "content"
             THEN [kind |-> "raise", exc |-> "OSError"]
        ELSE [kind |-> "ok",
              val |-> <<"--- FILE: ", Fmt(p.val), " ---\n">> \o ContentText(item)]

\* the body of the try block for one diff_item (lines 31-46)
RenderTry(item) ==
    LET nf == ReadAttr(item, "new_file") IN
    IF nf.kind = "raise" THEN nf
    ELSE IF nf.val THEN
        LET p == ReadAttr(item, "b_path") IN
        IF p.kind = "raise" THEN p
        ELSE [kind |-> "ok",
              val |-> <<"--- NEW FILE: ", Fmt(p.val), " ---\n">>
                      \o StreamBlobContent(item, "(File is binary or empty)")]
    ELSE IF item.deleted_file THEN
        LET p == ReadAttr(item, "a_path") IN
        IF p.kind = "raise" THEN p
        ELSE [kind |-> "ok",
              val |-> <<"--- DELETED FILE: ", Fmt(p.val), " ---\n">>
                      \o StreamBlobContent(item, "(File was binary or empty)")]
    ELSE
        LET p == ReadAttr(item, "a_path") IN
        IF p.kind = "raise" THEN p
        ELSE IF item.content = "absent"
             THEN [kind |-> "raise", exc |-> "AttributeError"]  \* None.decode
        ELSE IF item.fault = "content"
             THEN [kind |-> "raise", exc |-> "OSError"]
        ELSE [kind |-> "ok",
              val |-> <<"--- FILE: ", Fmt(p.val), " ---\n">> \o ContentText(item)]

\* path = diff_item.a_path or diff_item.b_path, as both handlers evaluate it
HandlerPath(item) ==
    LET a == ReadAttr(item, "a_path") IN
    IF a.kind = "raise" THEN a
    ELSE IF Truthy(a.val) THEN a
    ELSE ReadAttr(item, "b_path")

\* one pass of the for loop body, both except clauses included (lines 30-57)
RenderItem(item) ==
    LET t == RenderTry(item) IN
    IF t.kind = "ok" THEN t
    ELSE LET p == HandlerPath(item) IN
         IF p.kind = "raise" THEN p
         ELSE IF t.exc \in DecodeErrors
         THEN [kind |-> "ok",
               val |-> <<"--- FILE: ", Fmt(p.val), " ---(Could not decode diff: ", t.exc, ")">>]
         ELSE [kind |-> "ok",
               val |-> <<"--- FILE: ", Fmt(p.val), " ---(Error processing diff: ", t.exc, ")">>]

NoChanges == <<"No changes detected.">>

ProcessReturn_JoinOnly(diffs) == Join(<<"\n">>, diffs)

\* return "\n".join(diffs) if diffs else "No changes detected."  (line 59)
ProcessReturn(diffs) ==
    IF diffs # <<>> THEN Join(<<"\n">>, diffs) ELSE NoChanges

RECURSIVE ProcessLoop(_, _, _)
\* the for loop of _process_diff_index from item i on, diffs collected so far
ProcessLoop(index, i, diffs) ==
    IF i > Len(index)
    THEN [kind |-> "return", diffs |-> diffs, val |-> ProcessReturn(diffs)]
    ELSE LET r == RenderItem(index[i]) IN
         IF r.kind = "raise"
         THEN [kind |-> "raise", exc |-> r.exc, diffs |-> diffs]
         ELSE ProcessLoop(index, i + 1, Append(diffs, r.val))

_process_diff_index(index) == ProcessLoop(index, 1, <<>>)

(* ---------------------------------------------------------------------- *)
(* DiffExtractor.extract_diff                                              *)
(*                                                                         *)
(* A diff source is a repository handle (cls "Repo") or a commit (cls      *)
(* "Commit").  changes is what the comparison the source stands for holds: *)
(* index against HEAD for a repository, parent against commit for a commit *)
(* with a parent, and the files of the commit (each a new file) for a root *)
(* commit.  diffop says whether git can run the comparison.                *)
(* ---------------------------------------------------------------------- *)
HexshaOf(source) == IF source.cls = "Commit" THEN source.hexsha ELSE "repo"

\* diff_source.index.diff(diff_source.head.commit, create_patch=True, R=True)
IndexDiffHead(source) ==
    IF source.cls # "Repo" THEN [kind |-> "raise", exc |-> "AttributeError"]
    ELSE IF source.diffop = "fail" THEN [kind |-> "raise", exc |-> "GitCommandError"]
    ELSE [kind |-> "ok", val |-> source.changes]

\* diff_source.tree.diff(git.NULL_TREE, create_patch=True).  GitPython turns
\* this into `git diff-tree <tree> --root -r -p`: --root expands a root
\* COMMIT only, and for a tree object git writes "is a tree, not a commit"
\* to stderr, prints no diff and exits 0, so the DiffIndex comes back empty
\* whatever the tree holds.
TreeDiffNullTree(source) ==
    IF source.diffop = "fail" THEN [kind |-> "raise", exc |-> "GitCommandError"]
    ELSE [kind |-> "ok", val |-> <<>>]

\* parent.diff(diff_source, create_patch=True)
ParentDiff(source) ==
    IF source.diffop = "fail" THEN [kind |-> "raise", exc |-> "GitCommandError"]
    ELSE [kind |-> "ok", val |-> source.changes]

\* the try block of extract_diff (lines 70-85)
ExtractTry(source, diff_type) ==
    LET di == IF diff_type = "staged" THEN IndexDiffHead(source)
              ELSE IF diff_type = "commit" THEN
                  IF source.cls # "Commit"
                  THEN [kind |-> "raise", exc |-> "AttributeError"]  \* repo.parents
                  ELSE IF source.parents = 0 THEN TreeDiffNullTree(source)
                  ELSE ParentDiff(source)
              ELSE [kind |-> "raise", exc |-> "ValueError"]
    IN  IF di.kind = "raise" THEN di
        ELSE LET r == _process_diff_index(di.val) IN
             IF r.kind = "raise" THEN [kind |-> "raise", exc |-> r.exc]
             ELSE [kind |-> "return", val |-> r.val]

\* the text of the except clause (lines 87-89)
ExtractError(source, diff_type, exc) ==
    <<"Error extracting ", diff_type, " diff for ", HexshaOf(source), ": ", exc>>

extract_diff_NoCatch(source, diff_type) == ExtractTry(source, diff_type)

extract_diff(source, diff_type) ==
    LET t == ExtractTry(source, diff_type) IN
    IF t.kind = "raise"
    THEN [kind |-> "return", val |-> ExtractError(source, diff_type, t.exc)]
    ELSE t

(* ---------------------------------------------------------------------- *)
(* Specification of the DiffExtractor calls                                *)
(* ---------------------------------------------------------------------- *)
NoCall == [fn |-> "none"]
NoRet == [kind |-> "none"]

\* kwargs = {}: no max_count key
NoKwargs == [has_max_count |-> FALSE, max_count |-> 0]

\* the fetch variables while no fetch runs
FetchIdle ==
    /\ filters = [mode |-> Null]
    /\ repo = [kind |-> "none"]
    /\ pc = "idle"
    /\ kwargs = NoKwargs
    /\ cursor = 0
    /\ commits_data = <<>>
    /\ warned = FALSE
    /\ fetch_ret = NoRet

\* the DiffExtractor variables while no direct call is made
DiffIdle ==
    /\ diff_index = <<>>
    /\ diff_call = NoCall
    /\ diff_ret = NoRet

\* the build_prompt variables while no prompt is built
PromptIdle ==
    /\ template = [system |-> [none |-> TRUE], user |-> <<>>]
    /\ data = <<>>
    /\ max_tokens = 0
    /\ prompt_ret = NoRet

\* the variables of the public calls while none is made
CallIdle ==
    /\ call = [fn |-> "none"]
    /\ handle = [opened |-> 0, closed |-> 0]
    /\ invoked = {}
    /\ outcome = NoRet
    /\ asked = 0
    /\ passes = 0

\* the save_data_to_file variables while nothing is saved
SaveIdle ==
    /\ save_data = [lazy |-> FALSE, items |-> <<>>]
    /\ fault = [at |-> "none"]
    /\ destination = [exists |-> FALSE, content |-> <<>>]
    /\ previous = destination
    /\ save_pc = "idle"
    /\ pulled = 0
    /\ data_as_dicts = <<>>
    /\ written = 0
    /\ save_ret = NoRet

\* the tokenizer, engine and provider variables while they are not in use
AuxIdle ==
    /\ tokenizer = [model |-> "ok", generic |-> "ok"]
    /\ token_ret = NoRet
    /\ engine_ret = NoRet
    /\ client = [set |-> FALSE, closed |-> FALSE]
    /\ trace = <<>>

InitDiff ==
    /\ diff_index \in ChangeSets
    /\ diff_call = NoCall
    /\ diff_ret = NoRet
    /\ FetchIdle
    /\ PromptIdle
    /\ CallIdle
    /\ SaveIdle
    /\ AuxIdle

CallProcessDiffIndex ==
    /\ diff_call = NoCall
    /\ diff_call' = [fn |-> "_process_diff_index"]
    /\ diff_ret' = _process_diff_index(diff_index)
    /\ UNCHANGED <<auxVars, diff_index, fetchVars, promptVars, callVars, saveVars>>

DiffTypes == {"staged", "commit", "blame"}

IsAddition(item) == item.new_file /\ ~item.deleted_file

\* the diff sources whose comparison holds the change set changes
SourcesOver(changes) ==
    { [cls |-> "Repo", parents |-> 0, diffop |-> op, changes |-> changes,
       hexsha |-> Null] : op \in {"ok", "fail"} }
    \cup
    { [cls |-> "Commit", parents |-> 1, diffop |-> op, changes |-> changes,
       hexsha |-> "c0ffee1"] : op \in {"ok", "fail"} }
    \cup
    { [cls |-> "Commit", parents |-> 0, diffop |-> op, changes |-> changes,
       hexsha |-> "c0ffee0"] : op \in
          IF \A i \in 1..Len(changes) : IsAddition(changes[i])
          THEN {"ok", "fail"} ELSE {} }

CallExtractDiff ==
    /\ diff_call = NoCall
    /\ \E source \in SourcesOver(diff_index), diff_type \in DiffTypes :
          /\ diff_call' = [fn |-> "extract_diff", diff_source |-> source,
                           diff_type |-> diff_type]
          /\ diff_ret' = extract_diff(source, diff_type)
    /\ UNCHANGED <<auxVars, diff_index, fetchVars, promptVars, callVars, saveVars>>

NextDiff == CallProcessDiffIndex \/ CallExtractDiff

SpecDiff == InitDiff /\ [][NextDiff]_vars

(* ---------------------------------------------------------------------- *)
(* Properties of DiffExtractor                                             *)
(* ---------------------------------------------------------------------- *)
RECURSIVE CountAtom(_, _)
CountAtom(text, atom) ==
    IF text = <<>> THEN 0
    ELSE (IF Head(text) = atom THEN 1 ELSE 0) + CountAtom(Tail(text), atom)

IsText(x) == x # Null /\ DOMAIN x = 1..Len(x)

IsErrorAnnotation(block) ==
    /\ Len(block) = 5
    /\ block[1] = "--- FILE: "
    /\ block[3] \in {" ---(Could not decode diff: ", " ---(Error processing diff: "}

\* the block of a record: its rendering, or an error annotation when a read fails
BlockMatches(item, block) ==
    IF RenderTry(item).kind = "ok" THEN block = RenderTry(item).val
    ELSE IsErrorAnnotation(block)

CalledProcess == diff_call.fn = "_process_diff_index"
CalledExtract == diff_call.fn = "extract_diff"

\* C1: whichever part of a record fails to read, _process_diff_index returns
\* one block per record, in input order, the failing record's block being an
\* error annotation, and no exception leaves the loop.
C1_EveryRecordRendered ==
    CalledProcess =>
        /\ diff_ret.kind = "return"
        /\ Len(diff_ret.diffs) = Len(diff_index)
        /\ \A i \in 1..Len(diff_index) : BlockMatches(diff_index[i], diff_ret.diffs[i])

\* the comparison extract_diff is asked for cannot be run
ComparisonFails(source, diff_type) ==
    \/ diff_type \notin {"staged", "commit"}
    \/ source.diffop = "fail"
    \/ diff_type = "staged" /\ source.cls # "Repo"
    \/ diff_type = "commit" /\ source.cls # "Commit"

\* C2: extract_diff never raises and never returns None; it returns a text,
\* and when the comparison cannot be run that text is one error string.
C2_ExtractDiffTotal ==
    CalledExtract =>
        /\ diff_ret.kind = "return"
        /\ IsText(diff_ret.val)
        /\ ComparisonFails(diff_call.diff_source, diff_call.diff_type) =>
              /\ Len(diff_ret.val) = 6
              /\ diff_ret.val[1] = "Error extracting "
              /\ diff_ret.val[2] = diff_call.diff_type

C2_Witness ==
    /\ CalledExtract
    /\ diff_call.diff_type = "blame"
    /\ diff_ret.kind = "return"
    /\ diff_ret.val[1] = "Error extracting "

\* C6: an empty change set gives exactly "No changes detected.", and a change
\* set with at least one entry never gives the empty string.
C6_SentinelForEmpty ==
    /\ CalledProcess /\ diff_index = <<>> =>
          diff_ret.kind = "return" /\ diff_ret.val = <<"No changes detected.">>
    /\ CalledExtract /\ diff_index = <<>>
         /\ ~ComparisonFails(diff_call.diff_source, diff_call.diff_type) =>
          diff_ret.val = <<"No changes detected.">>
    /\ diff_ret.kind = "return" => diff_ret.val # <<>>

C6_Witness ==
    /\ CalledProcess
    /\ diff_index = <<>>
    /\ diff_ret.kind = "return"
    /\ diff_ret.val = <<"No changes detected.">>

IsRootCommit(source) == source.cls = "Commit" /\ source.parents = 0

\* C7: for a commit with no parent, extract_diff(commit, "commit") renders
\* every file of the commit as a NEW FILE block (stated for the commits whose
\* files all read without a fault).
C7_RootCommitAllAdditions ==
    ( /\ CalledExtract
      /\ diff_call.diff_type = "commit"
      /\ IsRootCommit(diff_call.diff_source)
      /\ diff_call.diff_source.diffop = "ok"
      /\ \A i \in 1..Len(diff_index) : diff_index[i].fault = "none" )
    => /\ CountAtom(diff_ret.val, "--- NEW FILE: ") = Len(diff_index)
       /\ CountAtom(diff_ret.val, "--- FILE: ") = 0
       /\ CountAtom(diff_ret.val, "--- DELETED FILE: ") = 0

\* the prefix the precedence new, then deleted, else modified gives a record
PrecedencePrefix(item) ==
    IF item.new_file THEN "--- NEW FILE: "
    ELSE IF item.deleted_file THEN "--- DELETED FILE: "
    ELSE "--- FILE: "

BlockPrefixes == {"--- NEW FILE: ", "--- DELETED FILE: ", "--- FILE: "}

\* the flags and paths of the record read without raising
AttributesReadable(item) == item.fault \in {"none", "content"}

\* C23: a returned rendering holds one block per record, every block opens
\* with exactly one of the three prefixes, and a record whose flags and
\* paths can be read gets NEW FILE when flagged new (flagged deleted too or
\* not), DELETED FILE when flagged deleted only, FILE otherwise.
C23_PrefixPrecedence ==
    CalledProcess /\ diff_ret.kind = "return" =>
        /\ Len(diff_ret.diffs) = Len(diff_index)
        /\ \A i \in 1..Len(diff_index) :
              /\ diff_ret.diffs[i][1] \in BlockPrefixes
              /\ \A k \in 2..Len(diff_ret.diffs[i]) :
                    diff_ret.diffs[i][k] \notin BlockPrefixes
              /\ AttributesReadable(diff_index[i]) =>
                    diff_ret.diffs[i][1] = PrecedencePrefix(diff_index[i])

\* a record flagged both new and deleted was rendered as a NEW FILE block
C23_Witness ==
    /\ CalledProcess
    /\ diff_ret.kind = "return"
    /\ Len(diff_index) = 2
    /\ diff_index[1].new_file /\ diff_index[1].deleted_file
    /\ diff_index[1].fault = "none"
    /\ diff_ret.diffs[1][1] = "--- NEW FILE: "
    /\ ~diff_index[2].new_file /\ diff_index[2].deleted_file
    /\ diff_ret.diffs[2][1] = "--- DELETED FILE: "

(* ---------------------------------------------------------------------- *)
(* _fetch_staged_data                                                      *)
(* ---------------------------------------------------------------------- *)
StagedRecord(staged_diff) ==
    [hash |-> "STAGED_CHANGES", short_hash |-> "STAGED",
     author |-> "Current User", date |-> "now",
     message |-> "PRE-COMMIT: Staged changes ready for analysis.",
     diff |-> staged_diff]

_fetch_staged_data_EmptyOnly(r) ==
    LET staged_diff == extract_diff(r, "staged").val IN
    IF staged_diff = <<>> THEN <<>> ELSE <<StagedRecord(staged_diff)>>

\* the list _fetch_staged_data returns for repository handle r (lines 146-163)
_fetch_staged_data(r) ==
    LET staged_diff == extract_diff(r, "staged").val IN
    IF staged_diff = <<>> \/ staged_diff = NoChanges THEN <<>>
    ELSE <<StagedRecord(staged_diff)>>

\* the repository handles of the staged fetches: index against HEAD
StagedRepos ==
    { [cls |-> "Repo", parents |-> 0, diffop |-> op, changes |-> cs, hexsha |-> Null] :
        op \in {"ok", "fail"}, cs \in ChangeSets }

InitStaged ==
    /\ DiffIdle
    /\ PromptIdle
    /\ CallIdle
    /\ SaveIdle
    /\ AuxIdle
    /\ filters = [mode |-> "staged"]
    /\ repo \in StagedRepos
    /\ pc = "staged"
    /\ kwargs = NoKwargs
    /\ cursor = 0
    /\ commits_data = <<>>
    /\ warned = FALSE
    /\ fetch_ret = NoRet

FetchStaged ==
    /\ pc = "staged"
    /\ fetch_ret' = [kind |-> "return", data |-> _fetch_staged_data(repo)]
    /\ pc' = "done"
    /\ UNCHANGED <<auxVars, diffVars, promptVars, callVars, saveVars, filters, repo, kwargs, cursor, commits_data, warned>>

NextStaged == FetchStaged

SpecStaged == InitStaged /\ [][NextStaged]_vars

\* C5: a staged fetch yields no record when the staged diff is empty or the
\* "No changes detected." sentinel, and otherwise exactly one record with hash
\* STAGED_CHANGES, short_hash STAGED and the extracted staged diff.
C5_StagedZeroOrOne ==
    pc = "done" /\ filters.mode = "staged" =>
        LET records == fetch_ret.data
            staged_diff == extract_diff(repo, "staged").val
        IN  /\ fetch_ret.kind = "return"
            /\ Len(records) <= 1
            /\ (staged_diff = <<>> \/ staged_diff = <<"No changes detected.">>)
                  => records = <<>>
            /\ ~(staged_diff = <<>> \/ staged_diff = <<"No changes detected.">>)
                  => /\ Len(records) = 1
                     /\ records[1].hash = "STAGED_CHANGES"
                     /\ records[1].short_hash = "STAGED"
                     /\ records[1].diff = staged_diff

C5_Witness ==
    /\ pc = "done" /\ filters.mode = "staged"
    /\ repo.changes # <<>> /\ repo.diffop = "ok"
    /\ Len(fetch_ret.data) = 1
    /\ fetch_ret.data[1].hash = "STAGED_CHANGES"
    /\ fetch_ret.data[1].diff[1] = "--- NEW FILE: "

(* ---------------------------------------------------------------------- *)
(* _fetch_history_data_by_hashes                                           *)
(*                                                                         *)
(* The commits a hash can name.  "zzz" names no commit; the commit of      *)
(* "c3d" carries a timestamp datetime.fromtimestamp cannot convert.        *)
(* ---------------------------------------------------------------------- *)
HashPool == {"a1f", "b2e", "c3d", "d4c", "zzz"}

ModifiedFile ==
    [new_file |-> FALSE, deleted_file |-> FALSE, a_path |-> "old.py",
     b_path |-> "new.py", content |-> "text", fault |-> "none"]

AddedFile ==
    [new_file |-> TRUE, deleted_file |-> FALSE, a_path |-> Null,
     b_path |-> "new.py", content |-> "text", fault |-> "none"]

CommitObject(hexsha, parents, diffop, changes, name, date, message) ==
    [cls |-> "Commit", hexsha |-> hexsha, parents |-> parents, diffop |-> diffop,
     changes |-> changes, author_name |-> name, committed_date |-> date,
     message |-> message]

\* repo.commit(commit_hash)
RepoCommit(commit_hash) ==
    IF commit_hash = "a1f" THEN [kind |-> "ok", val |->
        CommitObject("a1f0000aaaa", 1, "ok", <<ModifiedFile>>, "Ann", "ok", <<"fix: a">>)]
    ELSE IF commit_hash = "b2e" THEN [kind |-> "ok", val |->
        CommitObject("b2e0000bbbb", 0, "ok", <<AddedFile>>, Null, "ok", <<"init">>)]
    ELSE IF commit_hash = "c3d" THEN [kind |-> "ok", val |->
        CommitObject("c3d0000cccc", 1, "ok", <<ModifiedFile>>, "Cy", "out_of_range", <<"far">>)]
    ELSE IF commit_hash = "d4c" THEN [kind |-> "ok", val |->
        CommitObject("d4c0000dddd", 1, "fail", <<ModifiedFile>>, "", "ok", <<>>)]
    ELSE [kind |-> "raise", exc |-> "BadName"]

\* commit.hexsha[:7] on the commits above
ShortHash(hexsha) ==
    CASE hexsha = "a1f0000aaaa" -> "a1f0000"
      [] hexsha = "b2e0000bbbb" -> "b2e0000"
      [] hexsha = "c3d0000cccc" -> "c3d0000"
      [] hexsha = "d4c0000dddd" -> "d4c0000"

\* CommitData(hash=..., ..., diff=extract_diff(commit, "commit")) (lines 174-181)
CommitInfo(commit) ==
    IF commit.committed_date = "out_of_range"
    THEN [kind |-> "raise", exc |-> "OverflowError"]
    ELSE [kind |-> "ok", val |->
            [hash |-> commit.hexsha,
             short_hash |-> ShortHash(commit.hexsha),
             author |-> IF Truthy(commit.author_name) THEN commit.author_name
                        ELSE "Unknown Author",
             date |-> commit.committed_date,
             message |-> commit.message,
             diff |-> extract_diff(commit, "commit").val]]

FetchOneHash_TryAroundLoop(commit_hash, records) ==
    LET c == RepoCommit(commit_hash) IN
    IF c.kind = "raise" THEN [data |-> records, continue |-> FALSE]
    ELSE LET info == CommitInfo(c.val) IN
         IF info.kind = "raise" THEN [data |-> records, continue |-> FALSE]
         ELSE [data |-> Append(records, info.val), continue |-> TRUE]

\* one pass of the for loop over hashes, the except clause included
\* (lines 171-187): the list afterwards and whether the loop goes on
FetchOneHash(commit_hash, records) ==
    LET c == RepoCommit(commit_hash) IN
    IF c.kind = "raise" THEN [data |-> records, continue |-> TRUE]
    ELSE LET info == CommitInfo(c.val) IN
         IF info.kind = "raise" THEN [data |-> records, continue |-> TRUE]
         ELSE [data |-> Append(records, info.val), continue |-> TRUE]

InitHashes ==
    /\ DiffIdle
    /\ PromptIdle
    /\ CallIdle
    /\ SaveIdle
    /\ AuxIdle
    /\ filters \in { [mode |-> "hashes", hashes |-> hs] : hs \in SeqsUpTo(HashPool, MaxHashes) }
    /\ repo = [kind |-> "store"]
    /\ pc = "hashes"
    /\ kwargs = NoKwargs
    /\ cursor = 0
    /\ commits_data = <<>>
    /\ warned = FALSE
    /\ fetch_ret = NoRet

HashStep ==
    /\ pc = "hashes"
    /\ cursor < Len(filters.hashes)
    /\ LET r == FetchOneHash(filters.hashes[cursor + 1], commits_data) IN
         /\ commits_data' = r.data
         /\ cursor' = cursor + 1
         /\ IF r.continue
            THEN UNCHANGED <<pc, fetch_ret>>
            ELSE /\ pc' = "done"
                 /\ fetch_ret' = [kind |-> "return", data |-> r.data]
    /\ UNCHANGED <<auxVars, diffVars, promptVars, callVars, saveVars, filters, repo, kwargs, warned>>

HashesReturn ==
    /\ pc = "hashes"
    /\ cursor = Len(filters.hashes)
    /\ fetch_ret' = [kind |-> "return", data |-> commits_data]
    /\ pc' = "done"
    /\ UNCHANGED <<auxVars, diffVars, promptVars, callVars, saveVars, filters, repo, kwargs, cursor, commits_data, warned>>

NextHashes == HashStep \/ HashesReturn

SpecHashes == InitHashes /\ [][NextHashes]_vars

LookupSucceeds(commit_hash) == RepoCommit(commit_hash).kind = "ok"

RecordBuilds(commit_hash) ==
    /\ LookupSucceeds(commit_hash)
    /\ RepoCommit(commit_hash).val.committed_date # "out_of_range"

HexshaOfHash(commit_hash) == RepoCommit(commit_hash).val.hexsha

HashesDone == pc = "done" /\ filters.mode = "hashes"

\* C3 (as stated): the result holds exactly one record per hash whose lookup
\* succeeds, in input order, and nothing is raised.
C3_OneRecordPerResolvedHash ==
    HashesDone =>
        /\ fetch_ret.kind = "return"
        /\ LET found == SelectSeq(filters.hashes, LookupSucceeds) IN
             /\ Len(fetch_ret.data) = Len(found)
             /\ \A i \in 1..Len(found) : fetch_ret.data[i].hash = HexshaOfHash(found[i])

\* C3 (amended): the result holds exactly one record per hash whose lookup
\* and record construction both succeed, in input order; a hash for which
\* either fails is skipped and nothing is raised.
C3_OneRecordPerBuiltHash ==
    HashesDone =>
        /\ fetch_ret.kind = "return"
        /\ LET built == SelectSeq(filters.hashes, RecordBuilds) IN
             /\ Len(fetch_ret.data) = Len(built)
             /\ \A i \in 1..Len(built) : fetch_ret.data[i].hash = HexshaOfHash(built[i])

\* one invalid hash first in a list of three: two records, nothing raised
C3_Witness ==
    /\ HashesDone
    /\ filters.hashes = <<"zzz", "a1f", "b2e">>
    /\ fetch_ret.kind = "return"
    /\ Len(fetch_ret.data) = 2
    /\ fetch_ret.data[1].hash = "a1f0000aaaa"

(* ---------------------------------------------------------------------- *)
(* _fetch_history_data                                                     *)
(*                                                                         *)
(* The walk of a repository is its commits 1..len (after the since, until  *)
(* and author filters), newest first; a CommitData of the history list is  *)
(* named by the position of its commit in the walk.  bad is the position   *)
(* of a commit whose record cannot be built (0: there is none).            *)
(* ---------------------------------------------------------------------- *)
MAX_COMMITS_TO_FETCH == 1000

NoLimit == [t |-> "none"]
IntLimit(n) == [t |-> "int", v |-> n]
StrLimit(n) == [t |-> "str", numeric |-> TRUE, v |-> n]
BadStrLimit == [t |-> "str", numeric |-> FALSE, v |-> 0]

Limits ==
    {NoLimit, BadStrLimit, StrLimit(0), StrLimit(2)}
    \cup {IntLimit(n) : n \in {-1, 0, 1, 2, MAX_COMMITS_TO_FETCH,
                               MAX_COMMITS_TO_FETCH + ExtraWalk}}

WalkLens ==
    {0, 1, 2} \cup ((MAX_COMMITS_TO_FETCH - 1)..(MAX_COMMITS_TO_FETCH + ExtraWalk))

\* filters.get("limit") as a condition
LimitGiven(limit) ==
    \/ limit.t = "int" /\ limit.v # 0
    \/ limit.t = "str"

BuildKwargs_CapsLimit(f) ==
    IF ~LimitGiven(f.limit) THEN [kind |-> "ok", val |-> NoKwargs]
    ELSE IF f.limit.t = "str" /\ ~f.limit.numeric
         THEN [kind |-> "raise", exc |-> "ValueError"]
    ELSE [kind |-> "ok",
          val |-> [has_max_count |-> TRUE,
                   max_count |-> IF f.limit.v > MAX_COMMITS_TO_FETCH
                                 THEN MAX_COMMITS_TO_FETCH ELSE f.limit.v]]

\* kwargs as lines 193-195 build it (since, until, author select the walk)
BuildKwargs(f) ==
    IF ~LimitGiven(f.limit) THEN [kind |-> "ok", val |-> NoKwargs]
    ELSE IF f.limit.t = "str" /\ ~f.limit.numeric
         THEN [kind |-> "raise", exc |-> "ValueError"]       \* int("abc")
    ELSE [kind |-> "ok", val |-> [has_max_count |-> TRUE, max_count |-> f.limit.v]]

\* number of commits repo.iter_commits(**kwargs) yields
WalkTotal(r, kw) ==
    IF ~kw.has_max_count THEN r.len
    ELSE IF kw.max_count < 0 THEN r.len                   \* git: no limit
    ELSE IF kw.max_count < r.len THEN kw.max_count ELSE r.len

CapReached_OffByOne(records) == Len(records) > MAX_COMMITS_TO_FETCH

\* len(commits_data) >= 1000 (line 208)
CapReached(records) == Len(records) >= MAX_COMMITS_TO_FETCH

InitHistory ==
    /\ DiffIdle
    /\ PromptIdle
    /\ CallIdle
    /\ SaveIdle
    /\ AuxIdle
    /\ filters \in { [mode |-> "history", limit |-> l] : l \in Limits }
    /\ repo \in { [kind |-> "walk", len |-> n, bad |-> b] : n \in WalkLens, b \in {0, 2} }
    /\ pc = "history"
    /\ kwargs = NoKwargs
    /\ cursor = 0
    /\ commits_data = <<>>
    /\ warned = FALSE
    /\ fetch_ret = NoRet

\* lines 193-206: build kwargs, start the walk
HistoryBegin ==
    /\ pc = "history"
    /\ LET k == BuildKwargs(filters) IN
         IF k.kind = "raise"
         THEN /\ pc' = "done"
              /\ fetch_ret' = [kind |-> "raise", exc |-> k.exc]
              /\ UNCHANGED kwargs
         ELSE /\ pc' = "walk"
              /\ kwargs' = k.val
              /\ UNCHANGED fetch_ret
    /\ UNCHANGED <<auxVars, diffVars, promptVars, callVars, saveVars, filters, repo, cursor, commits_data, warned>>

\* one pass of the for loop: the walk hands over its next commit (lines 207-221)
HistoryStep ==
    /\ pc = "walk"
    /\ cursor < WalkTotal(repo, kwargs)
    /\ cursor' = cursor + 1
    /\ IF CapReached(commits_data)
       THEN /\ warned' = TRUE
            /\ pc' = "done"
            /\ fetch_ret' = [kind |-> "return", data |-> commits_data]
            /\ UNCHANGED commits_data
       ELSE IF cursor + 1 = repo.bad
       THEN /\ pc' = "done"
            /\ fetch_ret' = [kind |-> "raise", exc |-> "OverflowError"]
            /\ UNCHANGED <<commits_data, warned>>
       ELSE /\ commits_data' = Append(commits_data, cursor + 1)
            /\ UNCHANGED <<pc, fetch_ret, warned>>
    /\ UNCHANGED <<auxVars, diffVars, promptVars, callVars, saveVars, filters, repo, kwargs>>

\* the walk is exhausted: return commits_data (line 222)
HistoryReturn ==
    /\ pc = "walk"
    /\ cursor = WalkTotal(repo, kwargs)
    /\ pc' = "done"
    /\ fetch_ret' = [kind |-> "return", data |-> commits_data]
    /\ UNCHANGED <<auxVars, diffVars, promptVars, callVars, saveVars, filters, repo, kwargs, cursor, commits_data, warned>>

NextHistory == HistoryBegin \/ HistoryStep \/ HistoryReturn

SpecHistory == InitHistory /\ [][NextHistory]_vars

HistoryRun == filters.mode = "history"

\* C4: a history fetch never holds or yields more than 1000 records,
\* whatever the limit and however long the walk.
C4_AtMostCap ==
    HistoryRun =>
        /\ Len(commits_data) <= 1000
        /\ fetch_ret.kind = "return" => Len(fetch_ret.data) <= 1000

\* a walk longer than the cap, asked for with a limit above the cap
C4_Witness ==
    /\ HistoryRun /\ pc = "done"
    /\ filters.limit = IntLimit(MAX_COMMITS_TO_FETCH + ExtraWalk)
    /\ repo.len > 1000
    /\ fetch_ret.kind = "return"
    /\ Len(fetch_ret.data) = 1000

\* the commits the walk holds once the caller's filters are applied
FilteredWalk ==
    IF LimitGiven(filters.limit) /\ filters.limit.v >= 0
          /\ filters.limit.v < repo.len
    THEN filters.limit.v ELSE repo.len

HistoryReturned == HistoryRun /\ pc = "done" /\ fetch_ret.kind = "return"

\* C25: a history fetch warns exactly when the filtered walk holds more than
\* 1000 commits; then it returns the first 1000 commits of the walk, and
\* without the warning it returns the whole filtered walk.
C25_WarningIffTruncated ==
    /\ HistoryRun /\ warned => FilteredWalk > 1000
    /\ HistoryReturned =>
          /\ warned <=> FilteredWalk > 1000
          /\ warned => fetch_ret.data = [i \in 1..1000 |-> i]
          /\ ~warned => fetch_ret.data = [i \in 1..FilteredWalk |-> i]

\* a walk of 1001 commits was cut to 1000 with the warning
C25_Witness ==
    /\ HistoryReturned
    /\ FilteredWalk = 1001
    /\ warned
    /\ Len(fetch_ret.data) = 1000

\* C27: a history query with a limit L >= 0, integer or numeric string,
\* yields at most L records.
C27_AtMostLimit ==
    ( /\ HistoryReturned
      /\ filters.limit.t \in {"int", "str"}
      /\ filters.limit.t = "str" => filters.limit.numeric
      /\ filters.limit.v >= 0 )
    => /\ Len(fetch_ret.data) <= filters.limit.v
       /\ Len(fetch_ret.data) <= 1000

(* ---------------------------------------------------------------------- *)
(* fetch_repo_data and get_commits_for_display under GitRepositoryContext  *)
(*                                                                         *)
(* call.path says what repo_path names: "repo" a repository, "not_a_repo"  *)
(* a directory without one, "missing" a path that does not exist.  The     *)
(* repository of a call carries what every strategy reads: the staged      *)
(* comparison, the walk (len, bad) and breaks, the walk position at which  *)
(* iter_commits itself fails (0: nowhere).                                 *)
(* ---------------------------------------------------------------------- *)
MaxPasses == 2       \* passes a consumer may start over a returned result

RepoOpen_Deferred(path) == [kind |-> "ok"]

\* git.Repo(repo_path, search_parent_directories=True) (line 99)
RepoOpen(path) ==
    IF path = "repo" THEN [kind |-> "ok"]
    ELSE IF path = "not_a_repo"
         THEN [kind |-> "raise", exc |-> "InvalidGitRepositoryError"]
    ELSE [kind |-> "raise", exc |-> "NoSuchPathError"]

\* GitRepositoryContext.__enter__ (lines 97-102)
ContextEnter(path) ==
    LET r == RepoOpen(path) IN
    IF r.kind = "raise" /\ r.exc = "InvalidGitRepositoryError"
    THEN [kind |-> "raise", exc |-> "ValueError"]
    ELSE r

ContextExit_OnSuccessOnly(h, raised) ==
    IF raised THEN h ELSE [h EXCEPT !.closed = @ + 1]

\* GitRepositoryContext.__exit__ (lines 104-106); _repo is set on every
\* path that reaches it
ContextExit(h, raised) == [h EXCEPT !.closed = @ + 1]

Reraise_ReturnEmpty(r) ==
    IF r.kind = "raise" THEN [kind |-> "return", data |-> <<>>] ELSE r

\* the except clauses of fetch_repo_data (lines 244-252) and of
\* get_commits_for_display (lines 139-143): log and raise e
Reraise(r) == r

\* filters.get("hashes", []) (line 237)
HashesOf(f) == IF "hashes" \in DOMAIN f THEN f.hashes ELSE <<>>

StrategyOf_UnknownIsStaged(f) ==
    IF f.mode = "hashes" THEN "hashes"
    ELSE IF f.mode = "history" THEN "history"
    ELSE "staged"

\* the mode dispatch of fetch_repo_data (lines 233-242)
StrategyOf(f) ==
    IF f.mode = "staged" THEN "staged"
    ELSE IF f.mode = "hashes" THEN "hashes"
    ELSE "history"

FetchFilters ==
    {[mode |-> "staged"], [mode |-> "hashes"]}
    \cup { [mode |-> "hashes", hashes |-> hs] :
             hs \in SeqsUpTo({"a1f", "c3d", "zzz"}, 2) }
    \cup { [mode |-> md, limit |-> l] :
             md \in {"history", Null, "bogus"},
             l \in {NoLimit, BadStrLimit, IntLimit(2)} }

DisplayFilters == { [mode |-> "display", limit |-> IntLimit(n)] : n \in {1, 3} }

FetchRepos ==
    { [cls |-> "Repo", parents |-> 0, diffop |-> op, changes |-> cs, hexsha |-> Null,
       kind |-> "walk", len |-> n, bad |-> b, breaks |-> k] :
        op \in {"ok", "fail"}, cs \in {<<>>, <<AddedFile>>},
        n \in {0, 1, 3}, b \in {0, 2}, k \in {0, 1} }

InitFetch ==
    /\ DiffIdle
    /\ PromptIdle
    /\ SaveIdle
    /\ AuxIdle
    /\ \E fn \in {"fetch_repo_data", "get_commits_for_display"},
          path \in {"repo", "not_a_repo", "missing"} :
          /\ call = [fn |-> fn, path |-> path]
          /\ filters \in IF fn = "fetch_repo_data" THEN FetchFilters ELSE DisplayFilters
    /\ repo \in FetchRepos
    /\ pc = "call"
    /\ kwargs = NoKwargs
    /\ cursor = 0
    /\ commits_data = <<>>
    /\ warned = FALSE
    /\ fetch_ret = NoRet
    /\ handle = [opened |-> 0, closed |-> 0]
    /\ invoked = {}
    /\ outcome = NoRet
    /\ asked = 0
    /\ passes = 0

\* with GitRepositoryContext(repo_path) as repo: (lines 112, 232); when
\* __enter__ raises, __exit__ is not run and the except clause re-raises
EnterContext ==
    /\ pc = "call"
    /\ LET e == ContextEnter(call.path) IN
         IF e.kind = "raise"
         THEN /\ pc' = "finished"
              /\ outcome' = Reraise(e)
              /\ UNCHANGED handle
         ELSE /\ pc' = "entered"
              /\ handle' = [handle EXCEPT !.opened = @ + 1]
              /\ UNCHANGED outcome
    /\ UNCHANGED <<auxVars, diffVars, promptVars, saveVars, call, invoked, asked, passes,
                   filters, repo, kwargs, cursor, commits_data, warned, fetch_ret>>

\* fetch_repo_data picks its strategy (lines 233-242); an empty hash list
\* returns [] without calling one
Dispatch ==
    /\ pc = "entered"
    /\ call.fn = "fetch_repo_data"
    /\ IF StrategyOf(filters) = "hashes" /\ HashesOf(filters) = <<>>
       THEN /\ pc' = "done"
            /\ fetch_ret' = [kind |-> "return", data |-> <<>>]
            /\ UNCHANGED invoked
       ELSE /\ pc' = StrategyOf(filters)
            /\ invoked' = invoked \cup {StrategyOf(filters)}
            /\ UNCHANGED fetch_ret
    /\ UNCHANGED <<auxVars, diffVars, promptVars, saveVars, call, handle, outcome, asked, passes,
                   filters, repo, kwargs, cursor, commits_data, warned>>

\* get_commits_for_display starts its walk (lines 113-114)
DisplayBegin ==
    /\ pc = "entered"
    /\ call.fn = "get_commits_for_display"
    /\ pc' = "display"
    /\ kwargs' = [has_max_count |-> TRUE, max_count |-> filters.limit.v]
    /\ UNCHANGED <<auxVars, diffVars, promptVars, saveVars, callVars,
                   filters, repo, cursor, commits_data, warned, fetch_ret>>

\* one pass of the display loop (lines 114-137): a commit that cannot be
\* rendered is logged and skipped, a failure of the walk itself leaves the loop
DisplayStep ==
    /\ pc = "display"
    /\ cursor < WalkTotal(repo, kwargs)
    /\ cursor' = cursor + 1
    /\ IF cursor + 1 = repo.breaks
       THEN /\ pc' = "done"
            /\ fetch_ret' = [kind |-> "raise", exc |-> "GitCommandError"]
            /\ UNCHANGED commits_data
       ELSE IF cursor + 1 = repo.bad
       THEN UNCHANGED <<pc, fetch_ret, commits_data>>
       ELSE /\ commits_data' = Append(commits_data, cursor + 1)
            /\ UNCHANGED <<pc, fetch_ret>>
    /\ UNCHANGED <<auxVars, diffVars, promptVars, saveVars, callVars, filters, repo, kwargs, warned>>

\* return commits_for_display (line 138)
DisplayReturn ==
    /\ pc = "display"
    /\ cursor = WalkTotal(repo, kwargs)
    /\ pc' = "done"
    /\ fetch_ret' = [kind |-> "return", data |-> commits_data]
    /\ UNCHANGED <<auxVars, diffVars, promptVars, saveVars, callVars,
                   filters, repo, kwargs, cursor, commits_data, warned>>

\* the with block is left by return or by exception: __exit__ runs, then the
\* value goes to the caller or the except clause re-raises
ExitContext ==
    /\ pc = "done"
    /\ handle' = ContextExit(handle, fetch_ret.kind = "raise")
    /\ outcome' = Reraise(fetch_ret)
    /\ pc' = "finished"
    /\ UNCHANGED <<auxVars, diffVars, promptVars, saveVars, call, invoked, asked, passes,
                   filters, repo, kwargs, cursor, commits_data, warned, fetch_ret>>

\* the caller starts a for loop over the returned list
ConsumerIter ==
    /\ pc = "finished"
    /\ outcome.kind = "return"
    /\ passes < MaxPasses
    /\ passes = 0 \/ asked = Len(outcome.data)
    /\ passes' = passes + 1
    /\ asked' = 0
    /\ UNCHANGED <<auxVars, diffVars, promptVars, saveVars, fetchVars, call, handle, invoked, outcome>>

\* the loop takes the next record of the list
ConsumerTake ==
    /\ pc = "finished"
    /\ outcome.kind = "return"
    /\ passes > 0
    /\ asked < Len(outcome.data)
    /\ asked' = asked + 1
    /\ UNCHANGED <<auxVars, diffVars, promptVars, saveVars, fetchVars, call, handle, invoked,
                   outcome, passes>>

NextFetch ==
    \/ EnterContext
    \/ Dispatch
    \/ FetchStaged
    \/ HashStep
    \/ HashesReturn
    \/ HistoryBegin
    \/ HistoryStep
    \/ HistoryReturn
    \/ DisplayBegin
    \/ DisplayStep
    \/ DisplayReturn
    \/ ExitContext
    \/ ConsumerIter
    \/ ConsumerTake

SpecFetch == InitFetch /\ [][NextFetch]_vars

(* ---------------------------------------------------------------------- *)
(* Properties of fetch_repo_data and GitRepositoryContext                  *)
(* ---------------------------------------------------------------------- *)
FetchCall == call.fn = "fetch_repo_data"
CallFinished == pc = "finished"

\* records the running call has built so far
Built ==
    IF fetch_ret.kind = "return" THEN Len(fetch_ret.data) ELSE Len(commits_data)

\* C12: fetch_repo_data hands out a lazy, single-pass sequence: no more
\* records are built than the consumer has asked for, and a second pass over
\* a consumed result yields nothing.
C12_LazySinglePass ==
    FetchCall =>
        /\ passes <= 1 => Built <= asked
        /\ passes > 1 => asked = 0

\* C13: a handle is opened at most once and closed at most as often as
\* opened; once the call has returned or raised no handle is open, a
\* repository that opened was closed exactly once, and a failed opening
\* made no close() call, whatever the consumer does with the result.
C13_HandleClosedOnce ==
    /\ handle.closed <= handle.opened
    /\ handle.opened <= 1
    /\ CallFinished =>
         /\ handle.opened = handle.closed
         /\ call.path = "repo" => handle = [opened |-> 1, closed |-> 1]
         /\ call.path # "repo" => handle = [opened |-> 0, closed |-> 0]

\* a history fetch that failed in mid-walk has closed its handle
C13_Witness ==
    /\ CallFinished
    /\ FetchCall
    /\ outcome = [kind |-> "raise", exc |-> "OverflowError"]
    /\ commits_data # <<>>
    /\ handle = [opened |-> 1, closed |-> 1]

\* C14: for a path that is no repository fetch_repo_data raises at the
\* opening: no strategy is ever invoked, no record is ever built, and the
\* call ends with an exception.
C14_InvalidPathFailsFast ==
    FetchCall /\ call.path # "repo" =>
        /\ invoked = {}
        /\ commits_data = <<>>
        /\ fetch_ret = NoRet
        /\ pc \in {"call", "finished"}
        /\ CallFinished => outcome.kind = "raise"

\* a staged fetch on a directory without a repository has raised
C14_Witness ==
    /\ CallFinished
    /\ FetchCall
    /\ call.path = "not_a_repo"
    /\ filters.mode = "staged"
    /\ outcome = [kind |-> "raise", exc |-> "ValueError"]
    /\ invoked = {}

\* C15: fetch_repo_data raises ValueError only for an invalid repository
\* path: a failure after the repository was opened never surfaces as
\* ValueError.
C15_ValueErrorOnlyForInvalidPath ==
    FetchCall /\ CallFinished /\ outcome.kind = "raise" =>
        (outcome.exc = "ValueError" => handle.opened = 0)

\* the query of the call matches nothing in the repository
NothingMatches ==
    IF StrategyOf(filters) = "staged" THEN repo.changes = <<>>
    ELSE IF StrategyOf(filters) = "hashes" THEN HashesOf(filters) = <<>>
    ELSE WalkTotal(repo, kwargs) = 0

\* every hash of a hashes query was skipped
EveryHashFailed ==
    /\ StrategyOf(filters) = "hashes"
    /\ \A i \in 1..Len(HashesOf(filters)) : ~RecordBuilds(HashesOf(filters)[i])

\* some operation of the fetch failed
ErrorDuringFetch ==
    \/ call.path # "repo"
    \/ fetch_ret.kind = "raise"
    \/ StrategyOf(filters) = "staged" /\ ExtractTry(repo, "staged").kind = "raise"
    \/ /\ StrategyOf(filters) = "hashes"
       /\ \E i \in 1..Len(HashesOf(filters)) : ~RecordBuilds(HashesOf(filters)[i])

\* C16 (as stated): fetch_repo_data returns an empty sequence only when no
\* data matches the query, and whenever an error occurred during the fetch
\* the caller receives an exception.
C16_EmptyOnlyWhenNoMatch ==
    FetchCall /\ CallFinished =>
        /\ outcome.kind = "return" /\ outcome.data = <<>> => NothingMatches
        /\ ErrorDuringFetch => outcome.kind = "raise"

\* C16 (amended): a failed opening and every exception that leaves a fetch
\* strategy reach the caller as that exception, never as a result; an empty
\* result means that nothing matches the query or that every requested hash
\* was skipped.
C16_RaisedErrorsNeverEmpty ==
    FetchCall /\ CallFinished =>
        /\ call.path # "repo" => outcome.kind = "raise"
        /\ fetch_ret.kind = "raise" => outcome = fetch_ret
        /\ outcome.kind = "return" /\ outcome.data = <<>> =>
             NothingMatches \/ EveryHashFailed

\* two hashes asked for, neither gave a record: an empty list is returned
C16_Witness ==
    /\ FetchCall
    /\ CallFinished
    /\ filters.mode = "hashes"
    /\ Len(HashesOf(filters)) = 2
    /\ EveryHashFailed
    /\ outcome = [kind |-> "return", data |-> <<>>]

\* the commit lookups a call has made
Lookups == IF "hashes" \in invoked THEN cursor ELSE 0

\* C26: a call never invokes more than one strategy, and only the one its
\* mode selects: staged for "staged", the hash list for "hashes", history
\* for every other mode, absent and unknown ones included; an empty or
\* absent hash list returns an empty result with no strategy and no lookup.
C26_ExactlyOneStrategy ==
    FetchCall =>
        /\ Cardinality(invoked) <= 1
        /\ filters.mode = "staged" => invoked \subseteq {"staged"}
        /\ filters.mode = "hashes" => invoked \subseteq {"hashes"}
        /\ filters.mode \notin {"staged", "hashes"} => invoked \subseteq {"history"}
        /\ pc \in {"staged", "hashes", "history", "walk"} =>
              invoked = {IF pc = "walk" THEN "history" ELSE pc}
        /\ CallFinished /\ call.path = "repo" =>
              IF filters.mode = "hashes" /\ HashesOf(filters) = <<>>
              THEN /\ invoked = {}
                   /\ Lookups = 0
                   /\ outcome = [kind |-> "return", data |-> <<>>]
              ELSE Cardinality(invoked) = 1

\* an unrecognised mode ran the history strategy and nothing else
C26_Witness ==
    /\ FetchCall
    /\ CallFinished
    /\ filters.mode = "bogus"
    /\ invoked = {"history"}
    /\ outcome.kind = "return"
    /\ outcome.data # <<>>

(* ---------------------------------------------------------------------- *)
(* build_prompt (src/services/prompt_builder.py)                           *)
(*                                                                         *)
(* A commit record carries its message as the list of its lines (the empty *)
(* message has none).  The tokenizer is taken to give one token per atom.  *)
(* ---------------------------------------------------------------------- *)
DIFF_CONTENT == "{DIFF_CONTENT}"

\* count_tokens(text)
count_tokens(text) == Len(text)

RECURSIVE Replace(_, _, _)
\* text.replace(atom, repl): every occurrence, left to right
Replace(text, atom, repl) ==
    IF text = <<>> THEN <<>>
    ELSE (IF Head(text) = atom THEN repl ELSE <<Head(text)>>)
         \o Replace(Tail(text), atom, repl)

\* TemplatePrompts.system: str | None
NoSystem == [none |-> TRUE]
SomeSystem(text) == [none |-> FALSE, text |-> text]

\* f"{template.prompts.system}"
SystemText(t) == IF t.system.none THEN <<"None">> ELSE t.system.text

\* f"--- SYSTEM PROMPT ---\n{system}\n\n--- USER PROMPT ---\n{user}"
TwoSections(t, user) ==
    <<"--- SYSTEM PROMPT ---\n">> \o SystemText(t)
        \o <<"\n\n--- USER PROMPT ---\n">> \o user

\* the boilerplate cost (lines 17-19)
BaseTokens(t) == count_tokens(Replace(TwoSections(t, t.user), DIFF_CONTENT, <<>>))

\* commit_chunk (line 25); splitlines()[0] of an empty message raises
CommitChunk(commit) ==
    IF commit.message = <<>> THEN [kind |-> "raise", exc |-> "IndexError"]
    ELSE [kind |-> "ok",
          val |-> <<"--- Diff for ", commit.short_hash, ": ", commit.message[1], " ---\n">>
                  \o commit.diff]

OmittedAt_Remaining(d, chunks) == Len(d) - Len(chunks) - 1

\* omitted_commits = len(data) - len(chunks) (line 29)
OmittedAt(d, chunks) == Len(d) - Len(chunks)

AddTokens_NoAccumulate(current_tokens, commit_tokens) == current_tokens

\* current_tokens += commit_tokens (line 33)
AddTokens(current_tokens, commit_tokens) == current_tokens + commit_tokens

OverBudget_IgnoresSpent(current_tokens, commit_tokens, budget) ==
    commit_tokens > budget

\* if current_tokens + commit_tokens > max_tokens (line 28)
OverBudget(current_tokens, commit_tokens, budget) ==
    current_tokens + commit_tokens > budget

RECURSIVE AcceptLoop(_, _, _, _, _)
\* the for loop over data from commit i on (lines 24-33)
AcceptLoop(d, i, chunks, current_tokens, budget) ==
    IF i > Len(d)
    THEN [kind |-> "ok", chunks |-> chunks, omitted_commits |-> 0,
          current_tokens |-> current_tokens]
    ELSE LET c == CommitChunk(d[i]) IN
         IF c.kind = "raise" THEN c
         ELSE LET commit_tokens == count_tokens(c.val) IN
              IF OverBudget(current_tokens, commit_tokens, budget)
              THEN [kind |-> "ok", chunks |-> chunks,
                    omitted_commits |-> OmittedAt(d, chunks),
                    current_tokens |-> current_tokens]
              ELSE AcceptLoop(d, i + 1, Append(chunks, c.val),
                              AddTokens(current_tokens, commit_tokens), budget)

\* the opening of the truncation message (line 38)
INFO_PREFIX == "\n\n[INFO: "

\* truncation_message (line 38); the count is one atom
TruncationMessage(omitted_commits) ==
    <<INFO_PREFIX, ToString(omitted_commits),
      " commits were omitted to fit within the token limit.]">>

ShouldReport_MoreThanOne(omitted_commits) == omitted_commits > 1

\* if omitted_commits > 0 (line 37)
ShouldReport(omitted_commits) == omitted_commits > 0

EmptyPrompt_HeadersOnly(t) ==
    [kind |-> "return", payload |-> TwoSections(t, <<>>), chunks |-> <<>>,
     raw_diff |-> <<>>, omitted_commits |-> 0, printed |-> FALSE, token_calls |-> 0]

\* if not data: return "" (lines 13-14), before any count_tokens or print
EmptyPrompt(t) ==
    [kind |-> "return", payload |-> <<>>, chunks |-> <<>>,
     raw_diff |-> <<>>, omitted_commits |-> 0, printed |-> FALSE, token_calls |-> 0]

build_prompt(t, d, budget) ==
    IF d = <<>>
    THEN EmptyPrompt(t)
    ELSE LET loop == AcceptLoop(d, 1, <<>>, BaseTokens(t), budget) IN
         IF loop.kind = "raise" THEN [kind |-> "raise", exc |-> loop.exc]
         ELSE LET joined == Join(<<"\n\n">>, loop.chunks)
                  raw_diff == IF ShouldReport(loop.omitted_commits)
                              THEN joined \o TruncationMessage(loop.omitted_commits)
                              ELSE joined
                  final_user_prompt == Replace(t.user, DIFF_CONTENT, raw_diff)
              IN  [kind |-> "return",
                   payload |-> TwoSections(t, final_user_prompt),
                   chunks |-> loop.chunks,
                   raw_diff |-> raw_diff,
                   omitted_commits |-> loop.omitted_commits,
                   printed |-> TRUE,
                   \* count_tokens calls: line 19, line 26 for every commit
                   \* the loop reached, line 48
                   token_calls |-> 2 + Len(loop.chunks)
                                     + (IF loop.omitted_commits > 0 THEN 1 ELSE 0)]

Templates ==
    { [system |-> sys, user |-> usr] :
        sys \in {NoSystem, SomeSystem(<<"Be terse.">>)},
        usr \in { <<"Review: ", DIFF_CONTENT>>, <<"Summarise.">>,
                  <<DIFF_CONTENT, " Again: ", DIFF_CONTENT>> } }

CommitPool ==
    { [short_hash |-> "a1f0000", message |-> <<"fix: a">>, diff |-> <<"-x\n">>],
      [short_hash |-> "b2e0000", message |-> <<"feat: b", "body">>,
       diff |-> <<"+y\n", "+z\n", "+w\n">>],
      [short_hash |-> "c3d0000", message |-> <<>>, diff |-> <<"+v\n">>],
      [short_hash |-> "STAGED", message |-> <<"PRE-COMMIT">>, diff |-> NoChanges] }

InitPrompt ==
    /\ DiffIdle
    /\ FetchIdle
    /\ CallIdle
    /\ SaveIdle
    /\ AuxIdle
    /\ template \in Templates
    /\ data \in SeqsUpTo(CommitPool, MaxCommits)
    /\ max_tokens \in 0..MaxBudget
    /\ prompt_ret = NoRet

CallBuildPrompt ==
    /\ prompt_ret = NoRet
    /\ prompt_ret' = build_prompt(template, data, max_tokens)
    /\ UNCHANGED <<auxVars, diffVars, fetchVars, callVars, saveVars, template, data, max_tokens>>

NextPrompt == CallBuildPrompt

SpecPrompt == InitPrompt /\ [][NextPrompt]_vars

(* ---------------------------------------------------------------------- *)
(* Properties of build_prompt                                              *)
(* ---------------------------------------------------------------------- *)
PromptReturned == prompt_ret.kind = "return"

RECURSIVE LabelHashes(_)
\* the short hashes named by the "--- Diff for" labels of a text, in order
LabelHashes(text) ==
    IF Len(text) < 2 THEN <<>>
    ELSE IF Head(text) = "--- Diff for "
         THEN <<text[2]>> \o LabelHashes(Tail(text))
         ELSE LabelHashes(Tail(text))

OnePlaceholder == CountAtom(template.user, DIFF_CONTENT) = 1

\* C8: with a single input commit build_prompt emits no "--- Diff for" label
\* and inserts the diff as it is; with two or more input commits every
\* accepted commit has exactly one label, in input order (stated for the
\* templates that hold the placeholder once).
C8_LabelOnlyForSeveral ==
    PromptReturned /\ OnePlaceholder =>
        /\ Len(data) = 1 =>
             /\ CountAtom(prompt_ret.payload, "--- Diff for ") = 0
             /\ prompt_ret.chunks # <<>> =>
                  prompt_ret.payload =
                      TwoSections(template, Replace(template.user, DIFF_CONTENT, data[1].diff))
        /\ Len(data) >= 2 =>
             LabelHashes(prompt_ret.payload) =
                 [i \in 1..Len(prompt_ret.chunks) |-> data[i].short_hash]

\* C9: a budget smaller than the cost of the first commit's chunk accepts no
\* commit and reports as omitted the whole input.
C9_TinyBudgetOmitsAll ==
    ( /\ PromptReturned
      /\ data # <<>>
      /\ max_tokens < count_tokens(CommitChunk(data[1]).val) )
    => /\ prompt_ret.chunks = <<>>
       /\ prompt_ret.omitted_commits = Len(data)
       /\ CountAtom(prompt_ret.payload, "--- Diff for ") = 0

\* the boilerplate alone fits, the first chunk does not, three commits omitted
C9_Witness ==
    /\ PromptReturned
    /\ Len(data) = 3
    /\ max_tokens >= BaseTokens(template)
    /\ max_tokens < count_tokens(CommitChunk(data[1]).val)
    /\ prompt_ret.chunks = <<>>
    /\ prompt_ret.omitted_commits = 3

RECURSIVE SumTokens(_)
SumTokens(chunks) ==
    IF chunks = <<>> THEN 0
    ELSE count_tokens(Head(chunks)) + SumTokens(Tail(chunks))

\* C10 (as stated): the token cost of the returned payload does not exceed
\* max_tokens (stated for the calls that accept at least one commit, with a
\* template that holds the placeholder once).
C10_PayloadWithinBudget ==
    PromptReturned /\ prompt_ret.chunks # <<>> /\ OnePlaceholder =>
        count_tokens(prompt_ret.payload) <= max_tokens

\* C10 (amended): when at least one commit is accepted, the boilerplate cost
\* plus the costs of the accepted chunks does not exceed max_tokens.
C10_AccountedCostWithinBudget ==
    PromptReturned /\ prompt_ret.chunks # <<>> =>
        BaseTokens(template) + SumTokens(prompt_ret.chunks) <= max_tokens

\* two chunks accepted within the budget, one omitted, the payload above it
C10_Witness ==
    /\ PromptReturned
    /\ Len(prompt_ret.chunks) = 2
    /\ prompt_ret.omitted_commits = 1
    /\ BaseTokens(template) + SumTokens(prompt_ret.chunks) <= max_tokens
    /\ count_tokens(prompt_ret.payload) > max_tokens

\* C11: the text put in place of the placeholder is the accepted chunks
\* joined by blank lines, followed by the omission line exactly once when
\* fewer commits were accepted than given and by nothing otherwise; the line
\* reports the number of input commits minus the number of accepted ones, and
\* a template holding the placeholder once carries it once into the payload.
C11_OmissionLineOnceWithCount ==
    PromptReturned =>
        LET accepted == Len(prompt_ret.chunks)
            joined == Join(<<"\n\n">>, prompt_ret.chunks)
            reported == IF accepted < Len(data) THEN 1 ELSE 0
        IN  /\ accepted <= Len(data)
            /\ \A i \in 1..accepted : prompt_ret.chunks[i] = CommitChunk(data[i]).val
            /\ CountAtom(prompt_ret.raw_diff, INFO_PREFIX) = reported
            /\ prompt_ret.raw_diff =
                  IF reported = 1
                  THEN joined \o <<INFO_PREFIX, ToString(Len(data) - accepted),
                                   " commits were omitted to fit within the token limit.]">>
                  ELSE joined
            /\ OnePlaceholder =>
                  CountAtom(prompt_ret.payload, INFO_PREFIX) = reported

\* three commits given, one accepted: the line follows the chunk and says 2
C11_Witness ==
    /\ PromptReturned
    /\ Len(data) = 3
    /\ Len(prompt_ret.chunks) = 1
    /\ prompt_ret.raw_diff[Len(prompt_ret.raw_diff) - 2] = INFO_PREFIX
    /\ prompt_ret.raw_diff[Len(prompt_ret.raw_diff) - 1] = "2"

\* C22: for an empty commit list build_prompt returns the empty string, with
\* no section header, having counted no tokens and printed nothing.
C22_EmptyInputEmptyPrompt ==
    PromptReturned /\ data = <<>> =>
        /\ prompt_ret.payload = <<>>
        /\ CountAtom(prompt_ret.payload, "--- SYSTEM PROMPT ---\n") = 0
        /\ prompt_ret.token_calls = 0
        /\ ~prompt_ret.printed

\* no commit given, a template with a system text, a generous budget
C22_Witness ==
    /\ PromptReturned
    /\ data = <<>>
    /\ ~template.system.none
    /\ max_tokens = MaxBudget
    /\ prompt_ret.payload = <<>>

\* the chunk of a commit; a commit whose chunk cannot be built (it can only
\* lie behind the first rejected one when build_prompt returns) has none
ChunkOf(commit) ==
    IF CommitChunk(commit).kind = "ok" THEN CommitChunk(commit).val ELSE <<>>

\* the accounted cost of the first i commits of the input
CostUpTo(i) ==
    BaseTokens(template) + SumTokens([j \in 1..i |-> ChunkOf(data[j])])

\* C24: the accepted commits are a prefix of the input: commit i is
\* accepted exactly when the boilerplate cost plus the costs of commits 1..i
\* is within max_tokens for it and for every commit before it, so nothing
\* after the first rejected commit is accepted.
C24_AcceptedIsBudgetPrefix ==
    PromptReturned =>
        LET accepted == Len(prompt_ret.chunks) IN
        /\ accepted <= Len(data)
        /\ \A i \in 1..Len(data) :
              (i <= accepted) <=> (\A j \in 1..i : CostUpTo(j) <= max_tokens)
        /\ \A i \in 1..accepted : prompt_ret.chunks[i] = ChunkOf(data[i])

\* the second commit is too big and rejected; the third, which would have
\* fitted in its place, is not accepted either
C24_Witness ==
    /\ PromptReturned
    /\ Len(data) = 3
    /\ Len(prompt_ret.chunks) = 1
    /\ data[3].message # <<>>
    /\ CostUpTo(1) + count_tokens(ChunkOf(data[3])) <= max_tokens

(* ---------------------------------------------------------------------- *)
(* save_data_to_file (src/utils.py)                                        *)
(*                                                                         *)
(* data is a list or a one-shot generator of items.  An item of kind       *)
(* "record" is a CommitData; "unserializable" is an object whose           *)
(* model_dump gives a value json cannot encode; "not_a_model" has no       *)
(* model_dump.  JSON text is a sequence of atoms: brackets, braces, commas, *)
(* keys and values.  fault is the I/O failure the environment holds ready: *)
(* at mkdir, at open, at the write of record k, or at close.               *)
(* ---------------------------------------------------------------------- *)
MaxRecords == 3      \* longest sequence handed to save_data_to_file

IOErrors == {"OSError", "PermissionError"}

SaveCatch_TypeErrorOnly(exc) ==
    IF exc = "TypeError" THEN [kind |-> "return", val |-> FALSE]
    ELSE [kind |-> "raise", exc |-> exc]

\* except (TypeError, IOError): log, return False (lines 96-100); any other
\* exception leaves the function
SaveCatch(exc) ==
    IF exc = "TypeError" \/ exc \in IOErrors THEN [kind |-> "return", val |-> FALSE]
    ELSE [kind |-> "raise", exc |-> exc]

\* datetime -> str as model_dump(mode="json") renders it
IsoFormat(date) ==
    CASE date = "datetime(2024, 5, 1, 10, 0)" -> "2024-05-01T10:00:00"
      [] date = "datetime(2023, 12, 31, 23, 59)" -> "2023-12-31T23:59:00"

\* item.model_dump(mode="json") (line 88)
ModelDump(item) ==
    IF item.kind = "not_a_model" THEN [kind |-> "raise", exc |-> "AttributeError"]
    ELSE [kind |-> "ok",
          val |-> [encodable |-> item.kind = "record",
                   hash |-> item.hash, short_hash |-> item.short_hash,
                   author |-> item.author, date |-> IsoFormat(item.date),
                   message |-> item.message, diff |-> item.diff]]

\* the JSON text of one object of the array
EncodeObject(d) ==
    <<"{", "hash", d.hash, "short_hash", d.short_hash, "author", d.author,
      "date", d.date, "message", d.message, "diff", d.diff, "}">>

\* the fields of CommitData
CommitDataFields == {"hash", "short_hash", "author", "date", "message", "diff"}

\* atoms of one encoded object: the braces, a key and a value per field
ObjectLen == 2 * Cardinality(CommitDataFields) + 2

EmptyArrayText_Nothing == <<>>

\* json.dump([], f, indent=4) writes the two characters []
EmptyArrayText == <<"[]">>

ArrayChunk_NoSeparator(dicts, k) ==
    (IF k = 1 THEN <<"[">> ELSE <<>>) \o EncodeObject(dicts[k])
        \o (IF k = Len(dicts) THEN <<"]">> ELSE <<>>)

\* what json.dump writes for the k-th object of a non-empty list: the
\* opening bracket or the separator, the object, and after the last the
\* closing bracket
ArrayChunk(dicts, k) ==
    (IF k = 1 THEN <<"[">> ELSE <<",">>) \o EncodeObject(dicts[k])
        \o (IF k = Len(dicts) THEN <<"]">> ELSE <<>>)

RECURSIVE ParseObjects(_)
\* the objects of the text between the brackets of an array
ParseObjects(body) ==
    IF Len(body) < ObjectLen THEN [kind |-> "raise", exc |-> "JSONDecodeError"]
    ELSE IF ~( /\ body[1] = "{" /\ body[ObjectLen] = "}"
               /\ body[2] = "hash" /\ body[4] = "short_hash" /\ body[6] = "author"
               /\ body[8] = "date" /\ body[10] = "message" /\ body[12] = "diff" )
         THEN [kind |-> "raise", exc |-> "JSONDecodeError"]
    ELSE LET obj == [hash |-> body[3], short_hash |-> body[5], author |-> body[7],
                     date |-> body[9], message |-> body[11], diff |-> body[13]]
         IN  IF Len(body) = ObjectLen THEN [kind |-> "ok", val |-> <<obj>>]
             ELSE IF body[ObjectLen + 1] # ","
                  THEN [kind |-> "raise", exc |-> "JSONDecodeError"]
             ELSE LET rest == ParseObjects(SubSeq(body, ObjectLen + 2, Len(body)))
                  IN  IF rest.kind = "raise" THEN rest
                      ELSE [kind |-> "ok", val |-> <<obj>> \o rest.val]

\* json.load on the file: the parsed array, or the parse error
JsonLoad(file) ==
    IF ~file.exists THEN [kind |-> "raise", exc |-> "FileNotFoundError"]
    ELSE IF file.content = <<"[]">> THEN [kind |-> "ok", val |-> <<>>]
    ELSE IF Len(file.content) < 2 \/ Head(file.content) # "["
            \/ file.content[Len(file.content)] # "]"
         THEN [kind |-> "raise", exc |-> "JSONDecodeError"]
    ELSE ParseObjects(SubSeq(file.content, 2, Len(file.content) - 1))

ItemPool ==
    { [kind |-> "record", hash |-> "111", short_hash |-> "111", author |-> "Tester",
       date |-> "datetime(2024, 5, 1, 10, 0)", message |-> "First", diff |-> "diff1"],
      [kind |-> "record", hash |-> "222", short_hash |-> "222", author |-> "Tester",
       date |-> "datetime(2023, 12, 31, 23, 59)", message |-> "Second", diff |-> "diff2"],
      [kind |-> "unserializable", hash |-> "333", short_hash |-> "333", author |-> "Mock",
       date |-> "datetime(2024, 5, 1, 10, 0)", message |-> "Third", diff |-> "diff3"],
      [kind |-> "not_a_model"] }

Faults ==
    {[at |-> "none"]}
    \cup { [at |-> a, exc |-> "PermissionError", k |-> 0] : a \in {"mkdir", "open"} }
    \cup { [at |-> "write", exc |-> "OSError", k |-> k] : k \in 1..MaxRecords }
    \cup { [at |-> "close", exc |-> "OSError", k |-> 0] }

InitSave ==
    /\ DiffIdle
    /\ FetchIdle
    /\ PromptIdle
    /\ CallIdle
    /\ AuxIdle
    /\ save_data \in { [lazy |-> lz, items |-> its] :
                         lz \in BOOLEAN, its \in SeqsUpTo(ItemPool, MaxRecords) }
    /\ fault \in Faults
    /\ destination \in { [exists |-> FALSE, content |-> <<>>],
                         [exists |-> TRUE, content |-> <<"old">>] }
    /\ previous = destination
    /\ save_pc = "mkdir"
    /\ pulled = 0
    /\ data_as_dicts = <<>>
    /\ written = 0
    /\ save_ret = NoRet

\* output_path_obj.parent.mkdir(parents=True, exist_ok=True) (line 85)
SaveMkdir ==
    /\ save_pc = "mkdir"
    /\ IF fault.at = "mkdir"
       THEN /\ save_ret' = SaveCatch(fault.exc)
            /\ save_pc' = "done"
       ELSE /\ save_pc' = "pull"
            /\ UNCHANGED save_ret
    /\ UNCHANGED <<auxVars, diffVars, fetchVars, promptVars, callVars,
                   save_data, fault, previous, destination, pulled, data_as_dicts, written>>

\* one turn of the list comprehension (line 88): take the next item of data
\* and dump it
SavePull ==
    /\ save_pc = "pull"
    /\ pulled < Len(save_data.items)
    /\ pulled' = pulled + 1
    /\ LET d == ModelDump(save_data.items[pulled + 1]) IN
         IF d.kind = "raise"
         THEN /\ save_ret' = SaveCatch(d.exc)
              /\ save_pc' = "done"
              /\ UNCHANGED data_as_dicts
         ELSE /\ data_as_dicts' = Append(data_as_dicts, d.val)
              /\ UNCHANGED <<save_ret, save_pc>>
    /\ UNCHANGED <<auxVars, diffVars, fetchVars, promptVars, callVars,
                   save_data, fault, previous, destination, written>>

\* data is exhausted; open(output_path_obj, "w") creates or truncates the
\* file (line 92)
SaveOpen ==
    /\ save_pc = "pull"
    /\ pulled = Len(save_data.items)
    /\ IF fault.at = "open"
       THEN /\ save_ret' = SaveCatch(fault.exc)
            /\ save_pc' = "done"
            /\ UNCHANGED destination
       ELSE /\ destination' = [exists |-> TRUE, content |-> <<>>]
            /\ save_pc' = "write"
            /\ UNCHANGED save_ret
    /\ UNCHANGED <<auxVars, diffVars, fetchVars, promptVars, callVars,
                   save_data, fault, previous, pulled, data_as_dicts, written>>

\* json.dump of an empty list (line 93)
SaveWriteEmpty ==
    /\ save_pc = "write"
    /\ data_as_dicts = <<>>
    /\ destination' = [destination EXCEPT !.content = EmptyArrayText]
    /\ save_pc' = "close"
    /\ UNCHANGED <<auxVars, diffVars, fetchVars, promptVars, callVars,
                   save_data, fault, previous, pulled, data_as_dicts, written, save_ret>>

\* json.dump reaches the next object of the list (line 93); an error leaves
\* the with block, which closes the file with what was written
SaveWrite ==
    /\ save_pc = "write"
    /\ written < Len(data_as_dicts)
    /\ LET k == written + 1 IN
         IF ~data_as_dicts[k].encodable
         THEN /\ save_ret' = SaveCatch("TypeError")
              /\ save_pc' = "done"
              /\ UNCHANGED <<destination, written>>
         ELSE IF fault.at = "write" /\ fault.k = k
         THEN /\ save_ret' = SaveCatch(fault.exc)
              /\ save_pc' = "done"
              /\ UNCHANGED <<destination, written>>
         ELSE /\ destination' = [destination EXCEPT
                                   !.content = @ \o ArrayChunk(data_as_dicts, k)]
              /\ written' = k
              /\ save_pc' = IF k = Len(data_as_dicts) THEN "close" ELSE "write"
              /\ UNCHANGED save_ret
    /\ UNCHANGED <<auxVars, diffVars, fetchVars, promptVars, callVars,
                   save_data, fault, previous, pulled, data_as_dicts>>

\* the with block ends: the file is closed, then return True (line 95)
SaveClose ==
    /\ save_pc = "close"
    /\ save_ret' = IF fault.at = "close" THEN SaveCatch(fault.exc)
                   ELSE [kind |-> "return", val |-> TRUE]
    /\ save_pc' = "done"
    /\ UNCHANGED <<auxVars, diffVars, fetchVars, promptVars, callVars,
                   save_data, fault, previous, destination, pulled, data_as_dicts, written>>

NextSave ==
    \/ SaveMkdir
    \/ SavePull
    \/ SaveOpen
    \/ SaveWriteEmpty
    \/ SaveWrite
    \/ SaveClose

SpecSave == InitSave /\ [][NextSave]_vars

(* ---------------------------------------------------------------------- *)
(* Properties of save_data_to_file                                         *)
(* ---------------------------------------------------------------------- *)
SaveDone == save_pc = "done"
SavedTrue == save_ret = [kind |-> "return", val |-> TRUE]
SavedFalse == save_ret = [kind |-> "return", val |-> FALSE]

\* every item of data is a CommitData
AllRecords ==
    \A i \in 1..Len(save_data.items) : save_data.items[i].kind = "record"

\* the fault held ready lies on the path of this run
FaultMet ==
    /\ fault.at # "none"
    /\ fault.at = "write" => fault.k <= Len(save_data.items)

\* C17: a save of N CommitData that meets no fault returns True, and after
\* every save that returned True the file parses to exactly N objects whose
\* hash fields are the input hashes in input order, for a list and for a
\* generator alike.
C17_RoundTripHashes ==
    SaveDone =>
        /\ AllRecords /\ ~FaultMet => SavedTrue
        /\ SavedTrue =>
             LET back == JsonLoad(destination) IN
             /\ back.kind = "ok"
             /\ Len(back.val) = Len(save_data.items)
             /\ \A i \in 1..Len(back.val) : back.val[i].hash = save_data.items[i].hash

\* a generator of three records was saved and reads back as 111, 222, 111
C17_Witness ==
    /\ SaveDone
    /\ SavedTrue
    /\ save_data.lazy
    /\ Len(save_data.items) = 3
    /\ JsonLoad(destination).kind = "ok"
    /\ JsonLoad(destination).val[1].hash = "111"
    /\ JsonLoad(destination).val[2].hash = "222"
    /\ JsonLoad(destination).val[3].hash = "111"

\* C18: a save of an empty list or generator that meets no fault returns
\* True and leaves a file that exists and parses to the empty array.
C18_EmptyGivesEmptyArray ==
    SaveDone /\ save_data.items = <<>> /\ ~FaultMet =>
        /\ SavedTrue
        /\ destination.exists
        /\ JsonLoad(destination) = [kind |-> "ok", val |-> <<>>]

\* an empty generator was saved: the file holds the two characters []
C18_Witness ==
    /\ SaveDone
    /\ save_data = [lazy |-> TRUE, items |-> <<>>]
    /\ fault.at = "none"
    /\ destination = [exists |-> TRUE, content |-> <<"[]">>]
    /\ SavedTrue

\* the first item without model_dump comes before any unencodable one is
\* written, so its AttributeError is what the run meets unless mkdir fails
HasNonModel ==
    \E i \in 1..Len(save_data.items) : save_data.items[i].kind = "not_a_model"

\* C19: a TypeError or an I/O error never leaves save_data_to_file: a run
\* that meets one returns False, a run only raises an exception of another
\* class, and True is returned only with the complete array in the file.
C19_TypeAndIOErrorsGiveFalse ==
    SaveDone =>
        /\ save_ret.kind = "raise" =>
             save_ret.exc \notin ({"TypeError"} \cup IOErrors)
        /\ ~HasNonModel /\ (FaultMet \/ ~AllRecords) => SavedFalse
        /\ fault.at = "mkdir" => SavedFalse
        /\ SavedTrue =>
             /\ written = Len(save_data.items)
             /\ JsonLoad(destination).kind = "ok"
             /\ Len(JsonLoad(destination).val) = Len(save_data.items)

\* the write of the second of two records failed: False, with a broken file
C19_Witness ==
    /\ SaveDone
    /\ SavedFalse
    /\ Len(save_data.items) = 2
    /\ AllRecords
    /\ fault = [at |-> "write", exc |-> "OSError", k |-> 2]
    /\ written = 1
    /\ JsonLoad(destination).kind = "raise"

\* C20: at every point of a run the items pulled from data but not yet
\* written to the file number at most one.
C20_AtMostOnePending ==
    pulled - written <= 1

\* C30: when save_data_to_file returns False, a file that was at the
\* destination before the call is still there with the content it had.
C30_FailedSaveKeepsFile ==
    SaveDone /\ SavedFalse /\ previous.exists => destination = previous

(* ---------------------------------------------------------------------- *)
(* count_tokens (src/utils.py) when encodings cannot be loaded             *)
(*                                                                         *)
(* tokenizer.model says whether tiktoken.encoding_for_model(model) gives   *)
(* an encoding, tokenizer.generic whether tiktoken.get_encoding of         *)
(* "cl100k_base" does.  An encoding that loads counts one token per atom.  *)
(* ---------------------------------------------------------------------- *)
TokenizerEnvs ==
    { [model |-> m, generic |-> g] : m \in {"ok", "unavailable"},
                                     g \in {"ok", "unavailable"} }

\* the handler of count_tokens (lines 26-31): the generic encoding, and
\* whatever get_encoding raises leaves the function
CountFallback(env, text) ==
    IF env.generic = "ok" THEN [kind |-> "ok", val |-> count_tokens(text)]
    ELSE [kind |-> "raise", exc |-> "ConnectionError"]

\* count_tokens(text, model) (lines 18-31)
count_tokens_under(env, text) ==
    IF env.model = "ok" THEN [kind |-> "ok", val |-> count_tokens(text)]
    ELSE CountFallback(env, text)

\* the text of lines 17-18 whose tokens build_prompt counts first
BasePrompt(t) == Replace(TwoSections(t, t.user), DIFF_CONTENT, <<>>)

\* build_prompt with the tokenizer env: the first count (line 19) runs
\* outside any try, and every later count meets the same encodings
build_prompt_under(env, t, d, budget) ==
    IF d = <<>> THEN build_prompt(t, d, budget)
    ELSE LET base == count_tokens_under(env, BasePrompt(t)) IN
         IF base.kind = "raise" THEN [kind |-> "raise", exc |-> base.exc]
         ELSE build_prompt(t, d, budget)

InitTokens ==
    /\ DiffIdle
    /\ FetchIdle
    /\ CallIdle
    /\ SaveIdle
    /\ template \in Templates
    /\ data \in SeqsUpTo(CommitPool, MaxCommits - 1)
    /\ max_tokens \in {0, MaxBudget}
    /\ prompt_ret = NoRet
    /\ tokenizer \in TokenizerEnvs
    /\ token_ret = NoRet
    /\ engine_ret = NoRet
    /\ client = [set |-> FALSE, closed |-> FALSE]
    /\ trace = <<>>

\* a direct call count_tokens(base_prompt)
CallCountTokens ==
    /\ token_ret = NoRet
    /\ token_ret' = count_tokens_under(tokenizer, BasePrompt(template))
    /\ UNCHANGED <<diffVars, fetchVars, promptVars, callVars, saveVars,
                   tokenizer, engine_ret, client, trace>>

CallBuildPromptUnder ==
    /\ prompt_ret = NoRet
    /\ prompt_ret' = build_prompt_under(tokenizer, template, data, max_tokens)
    /\ UNCHANGED <<diffVars, fetchVars, callVars, saveVars, auxVars,
                   template, data, max_tokens>>

NextTokens == CallCountTokens \/ CallBuildPromptUnder

SpecTokens == InitTokens /\ [][NextTokens]_vars

\* C21: count_tokens returns an integer whatever encodings can be loaded,
\* the character-count heuristic standing in when neither loads, and
\* build_prompt raises only for reasons other than token estimation (here
\* the IndexError of a commit with an empty message).
C21_TokenEstimationNeverFails ==
    /\ token_ret # NoRet =>
         /\ token_ret.kind = "ok"
         /\ token_ret.val \in Nat
    /\ prompt_ret # NoRet /\ prompt_ret.kind = "raise" =>
         prompt_ret.exc = "IndexError"

(* ---------------------------------------------------------------------- *)
(* OpenAICompatibleProvider (src/providers.py)                             *)
(*                                                                         *)
(* client.set says that _client holds an AsyncOpenAI object, client.closed *)
(* that close() was awaited on it.  trace lists what the caller saw:       *)
(* "enter" and "exit" for __aenter__ and __aexit__, and for every          *)
(* stream_response consumed "call", one "chunk" per text yielded, then     *)
(* "stop" or "raise".                                                      *)
(* ---------------------------------------------------------------------- *)
MaxCalls == 4        \* provider calls made in one run
MaxChunks == 2       \* chunks one stream yields at most

\* self._client = AsyncOpenAI(...) (lines 27-29)
ProviderEnter(c) == [set |-> TRUE, closed |-> FALSE]

\* if self._client: await self._client.close() (lines 31-33); _client keeps
\* the closed object
ProviderExit(c) == IF c.set THEN [c EXCEPT !.closed = TRUE] ELSE c

\* await self._client.chat.completions.create(...) (lines 39-43): a closed
\* AsyncOpenAI client refuses to send, an open one streams n chunks and
\* then ends or fails
ClientCreate(c, n, fails) ==
    IF c.closed THEN <<"raise">>
    ELSE [i \in 1..n |-> "chunk"] \o (IF fails THEN <<"raise">> ELSE <<"stop">>)

stream_response_LazyClient(c, n, fails) ==
    <<"call">> \o ClientCreate([set |-> TRUE, closed |-> FALSE], n, fails)

\* stream_response consumed to its end (lines 35-46): what the caller sees
stream_response(c, n, fails) ==
    IF ~c.set THEN <<"call", "raise">>          \* RuntimeError of line 37
    ELSE <<"call">> \o ClientCreate(c, n, fails)

\* provider calls made so far
CallsMade == Len(trace) - CountAtom(trace, "chunk") - CountAtom(trace, "stop")
                 - CountAtom(trace, "raise")

InitProvider ==
    /\ DiffIdle
    /\ FetchIdle
    /\ PromptIdle
    /\ CallIdle
    /\ SaveIdle
    /\ tokenizer = [model |-> "ok", generic |-> "ok"]
    /\ token_ret = NoRet
    /\ engine_ret = NoRet
    /\ client = [set |-> FALSE, closed |-> FALSE]
    /\ trace = <<>>

Aenter ==
    /\ CallsMade < MaxCalls
    /\ client' = ProviderEnter(client)
    /\ trace' = Append(trace, "enter")
    /\ UNCHANGED <<diffVars, fetchVars, promptVars, callVars, saveVars,
                   tokenizer, token_ret, engine_ret>>

Aexit ==
    /\ CallsMade < MaxCalls
    /\ client' = ProviderExit(client)
    /\ trace' = Append(trace, "exit")
    /\ UNCHANGED <<diffVars, fetchVars, promptVars, callVars, saveVars,
                   tokenizer, token_ret, engine_ret>>

StreamResponse ==
    /\ CallsMade < MaxCalls
    /\ \E n \in 0..MaxChunks, fails \in BOOLEAN :
          trace' = trace \o stream_response(client, n, fails)
    /\ UNCHANGED <<diffVars, fetchVars, promptVars, callVars, saveVars,
                   tokenizer, token_ret, engine_ret, client>>

NextProvider == Aenter \/ Aexit \/ StreamResponse

SpecProvider == InitProvider /\ [][NextProvider]_vars

RECURSIVE EnteredAfter(_)
\* after the events of tr the provider is entered: the last of its "enter"
\* and "exit" events is an "enter"
EnteredAfter(tr) ==
    IF tr = <<>> THEN FALSE
    ELSE IF tr[Len(tr)] = "enter" THEN TRUE
    ELSE IF tr[Len(tr)] = "exit" THEN FALSE
    ELSE EnteredAfter(SubSeq(tr, 1, Len(tr) - 1))

EngineSystemText(t) == IF t.system.none THEN <<>> ELSE t.system.text

\* header + commit.diff for one commit of several (lines 54-55)
EngineChunk(commit) ==
    IF commit.message = <<>> THEN [kind |-> "raise", exc |-> "IndexError"]
    ELSE [kind |-> "ok",
          val |-> <<"--- Diff for ", commit.short_hash, ": ", commit.message[1], " ---\n">>
                  \o commit.diff]

\* raw_diff (lines 50-56): the diff itself for one commit, the labelled
\* diffs joined by blank lines for several
EngineRawDiff(d) ==
    IF Len(d) = 1 THEN [kind |-> "ok", val |-> d[1].diff]
    ELSE IF \E i \in 1..Len(d) : EngineChunk(d[i]).kind = "raise"
         THEN [kind |-> "raise", exc |-> "IndexError"]
    ELSE [kind |-> "ok",
          val |-> Join(<<"\n\n">>, [i \in 1..Len(d) |-> EngineChunk(d[i]).val])]

\* _build_prompt_from_data(template, data) (lines 39-73)
_build_prompt_from_data(t, d) ==
    IF d = <<>> THEN [kind |-> "return", payload |-> <<>>]
    ELSE LET raw == EngineRawDiff(d) IN
         IF raw.kind = "raise" THEN raw
         ELSE [kind |-> "return",
               payload |-> <<"--- SYSTEM PROMPT ---\n">> \o EngineSystemText(t)
                             \o <<"\n\n--- USER PROMPT ---\n">>
                             \o Replace(t.user, DIFF_CONTENT, raw.val)]

CallEngineBuild ==
    /\ engine_ret = NoRet
    /\ engine_ret' = _build_prompt_from_data(template, data)
    /\ UNCHANGED <<diffVars, fetchVars, promptVars, callVars, saveVars,
                   tokenizer, token_ret, client, trace>>

NextAssemblers == CallBuildPrompt \/ CallEngineBuild

SpecAssemblers == InitPrompt /\ [][NextAssemblers]_vars

\* C29: for a non-empty commit list all of which build_prompt accepts, the
\* payload of build_prompt is the payload of _build_prompt_from_data.
C29_AssemblersAgree ==
    ( /\ PromptReturned
      /\ engine_ret # NoRet
      /\ data # <<>>
      /\ Len(prompt_ret.chunks) = Len(data) )
    => /\ engine_ret.kind = "return"
       /\ engine_ret.payload = prompt_ret.payload

====
